---- MODULE Spec2Model ----
(***************************************************************************)
(* Model of src/bot.py: the upload session manager, the delete session     *)
(* manager, the text-message dispatch and the filename normaliser of the   *)
(* movie bot.  Strings are sequences of one-character strings, so that the *)
(* regular expressions of clean_filename act on characters.                *)
(***************************************************************************)
EXTENDS Integers, Sequences, FiniteSets, TLC

(***************************************************************************)
(* Characters and the character classes of Python's re module.             *)
(***************************************************************************)
Digits == {"0", "1", "2", "3", "4", "5", "6", "7", "8", "9"}

LowerLetters == {"a", "b", "c", "d", "e", "f", "g", "h", "i", "j", "k", "l", "m",
                 "n", "o", "p", "q", "r", "s", "t", "u", "v", "w", "x", "y", "z"}

UpperLetters == {"A", "B", "C", "D", "E", "F", "G", "H", "I", "J", "K", "L", "M",
                 "N", "O", "P", "Q", "R", "S", "T", "U", "V", "W", "X", "Y", "Z"}

\* Two characters outside ASCII: a letter (a word character for \w) and a
\* symbol (not a word character).
NonAsciiLetter == "U+00E9"
NonAsciiSymbol == "U+2605"
\* A lone surrogate code point, which UTF-8 cannot encode.
LoneSurrogate == "U+D800"
\* SUPERSCRIPT TWO: a digit for str.isdigit and for \w, not a decimal digit
\* for \d or int().
SuperscriptTwo == "U+00B2"
NonAscii == {NonAsciiLetter, NonAsciiSymbol, LoneSurrogate, SuperscriptTwo}

\* \w of a str pattern: letters, digits, underscore (Unicode aware).
WordChars == LowerLetters \cup UpperLetters \cup Digits
               \cup {"_", NonAsciiLetter, SuperscriptTwo}

\* \s restricted to the characters of the model.
SpaceChars == {" "}

IsNonWord(c) == c \notin WordChars

\* str.lower() on one character (re.IGNORECASE compares case-folded characters).
LowerOf(c) ==
  CASE c = "A" -> "a" [] c = "B" -> "b" [] c = "C" -> "c" [] c = "D" -> "d"
    [] c = "E" -> "e" [] c = "F" -> "f" [] c = "G" -> "g" [] c = "H" -> "h"
    [] c = "I" -> "i" [] c = "J" -> "j" [] c = "K" -> "k" [] c = "L" -> "l"
    [] c = "M" -> "m" [] c = "N" -> "n" [] c = "O" -> "o" [] c = "P" -> "p"
    [] c = "Q" -> "q" [] c = "R" -> "r" [] c = "S" -> "s" [] c = "T" -> "t"
    [] c = "U" -> "u" [] c = "V" -> "v" [] c = "W" -> "w" [] c = "X" -> "x"
    [] c = "Y" -> "y" [] c = "Z" -> "z" [] OTHER -> c

\* Strings and character classes, the domains of the recursive functions below.
Str == Seq(STRING)
CharClass == SUBSET STRING

\* s[i..] (1-based), the empty string when i is past the end.
FromOf[s \in Str, i \in Nat] == SubSeq(s, i, Len(s))

From(s, i) == FromOf[s, i]

\* The literal lit occurs in s at position i, compared case-insensitively.
MatchesAt(s, i, lit) ==
  /\ i + Len(lit) - 1 <= Len(s)
  /\ \A k \in 1..Len(lit) : LowerOf(s[i + k - 1]) = LowerOf(lit[k])

\* Number of leading characters of s that belong to cls.
RunLenOf[s \in Str, cls \in CharClass] ==
  IF s # <<>> /\ Head(s) \in cls THEN 1 + RunLenOf[Tail(s), cls] ELSE 0

RunLen(s, cls) == RunLenOf[s, cls]

\* str.lstrip(chars), str.rstrip(chars), str.strip(chars).
LStripOf[s \in Str, cls \in CharClass] == From(s, RunLen(s, cls) + 1)

LStrip(s, cls) == LStripOf[s, cls]

RStripOf[s \in Str, cls \in CharClass] ==
  IF s # <<>> /\ s[Len(s)] \in cls THEN RStripOf[SubSeq(s, 1, Len(s) - 1), cls] ELSE s

RStrip(s, cls) == RStripOf[s, cls]

Strip(s, cls) == RStripOf[LStripOf[s, cls], cls]

\* re.sub(r'[cls]+', ' ', s): every maximal run of cls characters becomes one space.
CollapseRunsOf[s \in Str, cls \in CharClass] ==
  IF s = <<>> THEN <<>>
  ELSE IF Head(s) \in cls
       THEN <<" ">> \o CollapseRunsOf[From(s, RunLen(s, cls) + 1), cls]
       ELSE <<Head(s)>> \o CollapseRunsOf[Tail(s), cls]

CollapseRuns(s, cls) == CollapseRunsOf[s, cls]

\* sanitize_unicode: encode to UTF-8 ignoring errors and decode again, which
\* drops the code points UTF-8 cannot encode and keeps the rest.
sanitize_unicode(text) == SelectSeq(text, LAMBDA c : c # LoneSurrogate)

(***************************************************************************)
(* clean_filename, one operator per re.sub / re.search of the function.    *)
(***************************************************************************)
\* re.sub(r'\[.*?\]', '', filename): each "[" up to the nearest "]" is removed.
RemoveBracketedOf[s \in Str] ==
  IF s = <<>> THEN <<>>
  ELSE IF Head(s) = "[" /\ \E j \in 2..Len(s) : s[j] = "]"
       THEN LET j == CHOOSE j \in 2..Len(s) :
                       s[j] = "]" /\ \A k \in 2..(j - 1) : s[k] # "]"
            IN  RemoveBracketedOf[From(s, j + 1)]
       ELSE <<Head(s)>> \o RemoveBracketedOf[Tail(s)]

RemoveBracketed(s) == RemoveBracketedOf[s]

\* re.sub(r'^[@\W_]+', '', filename)
StripLeadingJunkOf[s \in Str] ==
  LStrip(s, {c \in {s[i] : i \in DOMAIN s} : c = "@" \/ IsNonWord(c) \/ c = "_"})

StripLeadingJunk(s) == StripLeadingJunkOf[s]

\* re.sub(r'[^\x00-\x7F]+', '', filename)
RemoveNonAscii(s) == SelectSeq(s, LAMBDA c : c \notin NonAscii)

\* The alternatives of the tag pattern, in the order of the pattern.  digits
\* is "star" for AAC\d*, "plus" for v\d+ and "none" for a literal.
TagAlternatives ==
  << [lit |-> <<"H", "D", "R", "i", "p">>, digits |-> "none"],
     [lit |-> <<"1", "0", "b", "i", "t">>, digits |-> "none"],
     [lit |-> <<"x", "2", "6", "4">>, digits |-> "none"],
     [lit |-> <<"A", "A", "C">>, digits |-> "star"],
     [lit |-> <<"M", "B">>, digits |-> "none"],
     [lit |-> <<"A", "M", "Z", "N">>, digits |-> "none"],
     [lit |-> <<"W", "E", "B", "-", "D", "L">>, digits |-> "none"],
     [lit |-> <<"W", "E", "B", "R", "i", "p">>, digits |-> "none"],
     [lit |-> <<"H", "E", "V", "C">>, digits |-> "none"],
     [lit |-> <<"x", "2", "6", "5">>, digits |-> "none"],
     [lit |-> <<"E", "S", "u", "b">>, digits |-> "none"],
     [lit |-> <<"H", "Q">>, digits |-> "none"],
     [lit |-> <<".", "m", "k", "v">>, digits |-> "none"],
     [lit |-> <<".", "m", "p", "4">>, digits |-> "none"],
     [lit |-> <<".", "a", "v", "i">>, digits |-> "none"],
     [lit |-> <<".", "m", "o", "v">>, digits |-> "none"],
     [lit |-> <<"B", "l", "u", "R", "a", "y">>, digits |-> "none"],
     [lit |-> <<"D", "V", "D", "R", "i", "p">>, digits |-> "none"],
     [lit |-> <<"7", "2", "0", "p">>, digits |-> "none"],
     [lit |-> <<"1", "0", "8", "0", "p">>, digits |-> "none"],
     [lit |-> <<"5", "4", "0", "p">>, digits |-> "none"],
     [lit |-> <<"S", "D">>, digits |-> "none"],
     [lit |-> <<"H", "D">>, digits |-> "none"],
     [lit |-> <<"C", "A", "M">>, digits |-> "none"],
     [lit |-> <<"D", "V", "D", "S", "c", "r">>, digits |-> "none"],
     [lit |-> <<"R", "5">>, digits |-> "none"],
     [lit |-> <<"T", "S">>, digits |-> "none"],
     [lit |-> <<"R", "i", "p">>, digits |-> "none"],
     [lit |-> <<"B", "R", "R", "i", "p">>, digits |-> "none"],
     [lit |-> <<"A", "C", "3">>, digits |-> "none"],
     [lit |-> <<"D", "u", "a", "l", "A", "u", "d", "i", "o">>, digits |-> "none"],
     [lit |-> <<"6", "C", "H">>, digits |-> "none"],
     [lit |-> <<"v">>, digits |-> "plus"] >>

\* Length of the match of one alternative followed by (\W|$) at position i of
\* s, 0 when it does not match there.  The digits of AAC\d* and v\d+ are taken
\* greedily; giving one back leaves a digit next, which is neither \W nor the end.
AltMatchLen(s, i, alt) ==
  IF ~MatchesAt(s, i, alt.lit) THEN 0
  ELSE LET nd   == IF alt.digits = "none" THEN 0
                   ELSE RunLen(From(s, i + Len(alt.lit)), Digits)
           body == Len(alt.lit) + nd
       IN  IF alt.digits = "plus" /\ nd = 0 THEN 0
           ELSE IF i + body > Len(s) THEN body
           ELSE IF IsNonWord(s[i + body]) THEN body + 1
           ELSE 0

\* Length of the tag-pattern match at position i of s, trying the alternatives
\* from the a-th on in pattern order: that of the first one that matches, 0
\* when none does.
FirstAltMatchLen[s \in Str, i \in Nat, a \in Nat] ==
  IF a > Len(TagAlternatives) THEN 0
  ELSE LET n == AltMatchLen(s, i, TagAlternatives[a])
       IN  IF n > 0 THEN n ELSE FirstAltMatchLen[s, i, a + 1]

TagMatchLen(s, i) == FirstAltMatchLen[s, i, 1]

\* re.sub(pattern, ' ', filename): leftmost non-overlapping matches, each
\* (tag and the character after it) replaced by one space.
RemoveTagsOf[s \in Str] ==
  IF s = <<>> THEN <<>>
  ELSE LET n == TagMatchLen(s, 1)
       IN  IF n > 0 THEN <<" ">> \o RemoveTagsOf[From(s, n + 1)]
           ELSE <<Head(s)>> \o RemoveTagsOf[Tail(s)]

RemoveTags(s) == RemoveTagsOf[s]

\* The languages of the extraction pattern, in pattern order.
Languages == << <<"M", "a", "l", "a", "y", "a", "l", "a", "m">>, <<"T", "a", "m", "i", "l">>, <<"H", "i", "n", "d", "i">>, <<"T", "e", "l", "u", "g", "u">>, <<"E", "n", "g", "l", "i", "s", "h">> >>

\* [\s_]* of the extraction pattern.
SpaceOrUnderscore == SpaceChars \cup {"_"}

\* Position of the first of four digits when s[k+1..] starts with
\* [\s_]*\(?\d{4}, 0 otherwise.  The run of [\s_] is followed by "(" or a digit,
\* neither of which is in the class, so the run is taken whole.
YearStartAfterOf[s \in Str, k \in Nat] ==
  LET p == k + 1 + RunLen(From(s, k + 1), SpaceOrUnderscore)
      q == IF p <= Len(s) /\ s[p] = "(" THEN p + 1 ELSE p
      fourAt(x) == x + 3 <= Len(s) /\ \A d \in 0..3 : s[x + d] \in Digits
  IN  IF fourAt(q) THEN q ELSE 0

YearStartAfter(s, k) == YearStartAfterOf[s, k]

\* The smallest k' >= k for which s[k'+1..] starts with [\s_]*\(?\d{4}, and -1
\* when there is none: where the lazy group 1 of the extraction pattern ends.
FirstYearPrefix[s \in Str, k \in Nat] ==
  IF k > Len(s) THEN -1
  ELSE IF YearStartAfter(s, k) > 0 THEN k
  ELSE FirstYearPrefix[s, k + 1]

\* The groups of the match whose group 1 is s[1..k] and whose year starts at y:
\* an optional ")", a run of [\s_], and a language if one follows at once.
GroupsAt[s \in Str, k \in Nat, y \in Nat] ==
  LET a    == IF y + 4 <= Len(s) /\ s[y + 4] = ")" THEN y + 5 ELSE y + 4
      l    == a + RunLen(From(s, a), SpaceOrUnderscore)
      lang == {i \in DOMAIN Languages : MatchesAt(s, l, Languages[i])}
  IN  << SubSeq(s, 1, k),
         SubSeq(s, y, y + 3),
         IF lang = {} THEN <<>>
         ELSE SubSeq(s, l, l + Len(Languages[CHOOSE i \in lang : TRUE]) - 1) >>

\* re.search(r'^(.*?)[\s_]*\(?(\d{4})\)?[\s_]*(Malayalam|Tamil|Hindi|Telugu|English)?',
\*           filename, re.IGNORECASE).  The result is <<>> when there is no match
\* and <<group1, group2, group3>> otherwise (group3 empty when the optional
\* language did not take part).
ExtractMatchOf[s \in Str] ==
  IF FirstYearPrefix[s, 0] < 0 THEN <<>>
  ELSE GroupsAt[s, FirstYearPrefix[s, 0], YearStartAfter(s, FirstYearPrefix[s, 0])]

ExtractMatch(s) == ExtractMatchOf[s]

\* The characters of strip(" -._").
Separators == {" ", "-", ".", "_"}

\* Lines 122-132: the result, given the filename after the tag removal and
\* the match m of the extraction pattern in it.
Formatted[s5 \in Str, m \in Seq(Str)] ==
  IF m # <<>>
  THEN LET name     == Strip(m[1], Separators)
           year     == Strip(m[2], SpaceChars)
           language == Strip(m[3], SpaceChars)
           cleaned  == Strip(name \o <<" ", "(">> \o year \o <<")", " ">> \o language,
                             SpaceChars)
       IN  CollapseRuns(cleaned, SpaceChars)
  ELSE Strip(s5, Separators)

\* Lines 116-120: the tag removal and the extraction, given the filename after
\* lines 104-113.
AfterTags[s5 \in Str] == Formatted[s5, ExtractMatch(s5)]

\* clean_filename(filename), lines 101-132.
CleanFilenameOf[filename \in Str] ==
  AfterTags[Strip(RemoveTags(Strip(CollapseRuns(RemoveNonAscii(StripLeadingJunk(
              RemoveBracketed(filename))), SpaceOrUnderscore), SpaceChars)), SpaceChars)]

clean_filename(filename) == CleanFilenameOf[filename]

(***************************************************************************)
(* Configuration (lines 46-52) and the inputs the events are drawn from.   *)
(***************************************************************************)
Users == {"a1", "n1"}
\* ADMIN_IDS lists any number of users; a second admin takes part in the
\* delete workflow of the search group.
ADMIN_IDS == {"a1", "a2"}
Members == Users \cup {"a2"}

STORAGE_GROUP_ID == "storage"
SEARCH_GROUP_ID == "search"
\* The chats updates come from: the two groups.  A private chat with the bot
\* is handled as the search group is and has a single member.
Chats == {STORAGE_GROUP_ID, SEARCH_GROUP_ID}

PAGE_SIZE == 10

\* Bounds of the model.
MaxSteps == 4      \* updates handled in one behaviour
MaxStored == 2     \* records in the collection when the process starts
MaxListed == 3     \* records in the collection an admin has listed
MaxTitleWords == 2 \* most words of a title in the names clean_filename is applied to
MaxDocs == 3       \* most documents of one stored record that is delivered
MaxTotal == 25     \* largest stored library that is listed page by page
MaxPage == 2       \* largest page number asked of /list

\* message.document of the document messages: file_id and raw file_name.
Documents ==
  { [file_id |-> "f1", file_name |-> <<"U", "p", "_", "2", "0", "0", "9", ".", "m", "k", "v">>],
    [file_id |-> "f2", file_name |-> <<"[", "x", "]", "H", "D">>] }

\* message.photo of the photo messages: the sizes of one photo, as Telegram
\* lists them.
Photos ==
  { << [file_id |-> "p1s", width |-> 1, height |-> 1],
       [file_id |-> "p1l", width |-> 2, height |-> 2] >>,
    << [file_id |-> "p2a", width |-> 2, height |-> 1],
       [file_id |-> "p2b", width |-> 1, height |-> 2] >> }

\* message.text of the non-command text messages.  Telegram delivers text
\* that is well-formed Unicode and has no surrounding whitespace.
Texts == { <<"1">>, <<"u", "p">>, <<SuperscriptTwo>> }

\* Optional values: None is the empty sequence, a value v is <<v>>.
None == <<>>
Some(v) == <<v>>

\* Python truth of an optional string (None and "" are false) and of an
\* optional dict with keys (None is false).
TruthyStr(o) == o # None /\ o[1] # <<>>
TruthyObj(o) == o # None

VARIABLES
  upload_sessions,   \* user id -> session, for the users that have one
  delete_sessions,   \* user id -> {page, movies, selected}, likewise
  collection,        \* the Movies collection, in insertion order
  next_id,           \* source of fresh movie_id / _id values
  edit_offered,      \* an "Edit or continue?" message with its two buttons exists
  buttons,           \* the page and confirm buttons posted so far
  received,          \* what each user has sent into the current or last session (history)
  steps,             \* number of updates handled so far
  ev,                \* the update handled by the last step
  out,               \* the collaborator calls the last step made, in order
  evaluated,         \* the session check_and_save_movie examined in the last step
  connection         \* connect_mongo: its retries left and what it returned

vars == <<upload_sessions, delete_sessions, collection, next_id, edit_offered,
          buttons, received, steps, ev, out, evaluated, connection>>

\* The last send of a handler, and a send whose exception is caught and only
\* logged, changes nothing by failing: it is recorded as made, ok = TRUE.  The
\* sends that the handler goes on after succeed or raise, ok = FALSE.
\* One call a handler makes to a collaborator (the storage or the transport):
\* what was asked, whether the call succeeded, and the _id of the record it is
\* about (0 when it is about none).
Sent(kind, ok) == [kind |-> kind, ok |-> ok, ref |-> 0]
SentAbout(kind, ok, ref) == [kind |-> kind, ok |-> ok, ref |-> ref]

\* The session add_movie creates with setdefault (lines 268-273).
NewSession ==
  [files |-> <<>>, image |-> None, movie_name |-> None, awaiting_name_edit |-> FALSE]

\* The empty dict.
EmptyDict == [x \in {} |-> None]

(***************************************************************************)
(* connect_mongo (lines 73-88) and the module-level name collection        *)
(* (line 90)                                                               *)
(***************************************************************************)
\* Line 74.
Retries == 5

\* connect_mongo is running, with retries left.
Connecting(retries) == [retries |-> retries, returned |-> "pending"]

\* connect_mongo is over: it returned the collection, returned None, or an
\* exception other than ServerSelectionTimeoutError left it and ended the
\* process.  Its local retries is gone.
Returned(value) == [retries |-> 0, returned |-> value]

\* The name collection is bound to the Movies collection; when it is bound to
\* None every collection.<method> raises AttributeError.
Connected == connection.returned = "collection"

\* One turn of the while loop of connect_mongo.  Server selection ends within
\* serverSelectionTimeoutMS, so each turn ends.
connect_mongo ==
  /\ connection.returned = "pending"
  /\ connection.retries > 0
  /\ UNCHANGED <<upload_sessions, delete_sessions, collection, next_id,
                 edit_offered, buttons, received, steps>>
  /\ evaluated' = None
  /\ \E outcome \in {"connected", "ServerSelectionTimeoutError", "raised"} :
       /\ ev' = [op |-> "connect_mongo", user |-> "a1", chat |-> "private",
                 arg |-> << outcome >>]
       /\ out' = << Sent("ping", outcome = "connected") >>
       /\ connection' =
            CASE outcome = "connected" -> Returned("collection")
              [] outcome = "raised" -> Returned("raised")
              [] OTHER -> IF connection.retries - 1 > 0
                          THEN Connecting(connection.retries - 1)
                          ELSE Returned("None")

\* The dispatcher hands one more update to its handler; main runs after
\* connect_mongo has returned.
Handles(update) ==
  /\ connection.returned \in {"collection", "None"}
  /\ UNCHANGED connection
  /\ steps < MaxSteps
  /\ steps' = steps + 1
  /\ ev' = update

\* A variant of the dict assignment that writes v under every key.
PutEveryKey(d, k, v) == [x \in (DOMAIN d) \cup {k} |-> v]

\* dict with key k set to v, and dict without key k.
Put(d, k, v) == [x \in (DOMAIN d) \cup {k} |-> IF x = k THEN v ELSE d[x]]
Del(d, k) == [x \in (DOMAIN d) \ {k} |-> d[x]]

(***************************************************************************)
(* check_and_save_movie (lines 191-230)                                    *)
(***************************************************************************)
\* Line 199: all required data present.
HasAllRequired(session) ==
  /\ session.files # <<>>
  /\ TruthyObj(session.image)
  /\ TruthyStr(session.movie_name)

\* Lines 203-211: the entry built from the session.  uuid4 and the ObjectId
\* the driver assigns are both fresh; one counter supplies them.
movie_entry(session, id) ==
  [_id |-> id, movie_id |-> id, name |-> session.movie_name[1],
   media |-> [documents |-> session.files, image |-> session.image[1]]]

\* Lines 223-224: whether the session is cleared after the try body, given
\* the outcome of the confirmation reply.  An exception raised by the reply
\* leaves the try body before the del statement.
SessionCleared(replyOk) == replyOk

\* Lines 215-217: the confirmation reply that raised.  With a message the send
\* was attempted and failed; without one the attribute access raised first.
ConfirmationRaised(has_message, id) ==
  IF has_message THEN << SentAbout("added", FALSE, id) >> ELSE <<>>

\* Lines 226-230: the except branch replies with the failure notice through
\* update.message; without a message the reply raises before anything is sent.
FailureNotice(has_message) ==
  IF has_message THEN << Sent("failed", TRUE) >> ELSE <<>>

\* The handler has mutated the sessions to sess and made the calls said.
\* has_message tells whether update.message is set: it is for a message
\* update and it is None for a callback query update, where
\* update.message.reply_text raises AttributeError (lines 215 and 228).
check_and_save_movie(sess, user_id, said, has_message) ==
  IF user_id \notin DOMAIN sess
  THEN /\ upload_sessions' = sess
       /\ out' = said
       /\ evaluated' = None
       /\ UNCHANGED <<collection, next_id>>
  ELSE LET session == sess[user_id] IN
       /\ evaluated' = Some(session)
       /\ IF ~HasAllRequired(session)
          THEN /\ upload_sessions' = sess
               /\ out' = said
               /\ UNCHANGED <<collection, next_id>>
          ELSE LET entry == movie_entry(session, next_id) IN
               \E insertOk \in {ok \in BOOLEAN : ok => Connected} :
                 IF insertOk
                 THEN \E replyOk \in {ok \in BOOLEAN : ok => has_message} :
                        /\ collection' = Append(collection, entry)
                        /\ next_id' = next_id + 1
                        /\ upload_sessions' = IF SessionCleared(replyOk)
                                              THEN Del(sess, user_id) ELSE sess
                        /\ IF replyOk
                           THEN \E previewOk \in BOOLEAN :
                                  out' = said \o << SentAbout("insert", TRUE, entry._id),
                                                    SentAbout("added", TRUE, entry._id),
                                                    SentAbout("preview", previewOk, entry._id) >>
                           ELSE out' = said \o << SentAbout("insert", TRUE, entry._id) >>
                                            \o ConfirmationRaised(has_message, entry._id)
                                            \o FailureNotice(has_message)
                 ELSE /\ out' = said \o << SentAbout("insert", FALSE, entry._id) >>
                                     \o FailureNotice(has_message)
                      /\ upload_sessions' = sess
                      /\ UNCHANGED <<collection, next_id>>

\* The handler returns (or a send outside any try block raised) without a
\* call of check_and_save_movie.
Returns(sess, said) ==
  /\ upload_sessions' = sess
  /\ out' = said
  /\ evaluated' = None
  /\ UNCHANGED <<collection, next_id>>

(***************************************************************************)
(* add_movie (lines 261-324)                                               *)
(***************************************************************************)
\* A variant that takes every user for an admin.
IsAdminEveryone(user_id) == TRUE

\* Line 290 / 323: membership in ADMIN_IDS.
IsAdmin(user_id) == user_id \in ADMIN_IDS

\* The document message of the release-name scenario.
ScenarioFileName ==
  <<"M", "o", "v", "i", "e", ".", "T", "i", "t", "l", "e", ".", "2", "0", "2", "1", ".",
     "1", "0", "8", "0", "p", ".", "W", "E", "B", "-", "D", "L", ".", "x", "2", "6", "4", ".", "m", "k", "v">>

ScenarioDocuments == { [file_id |-> "f3", file_name |-> ScenarioFileName] }

\* clean_filename on the file names of the document messages, as a table.
CleanedNames ==
  [d \in Documents \cup ScenarioDocuments |-> clean_filename(d.file_name)]

\* A variant that puts the newest file first.
WithDocumentNewestFirst(session, doc) ==
  LET cleaned_name == CleanedNames[doc] IN
  [session EXCEPT
     !.files = <<[file_id |-> doc.file_id, file_name |-> cleaned_name]>> \o @,
     !.movie_name = IF ~TruthyStr(@) THEN Some(cleaned_name) ELSE @]

\* Lines 276-287: the session after a document.
WithDocument(session, doc) ==
  LET cleaned_name == CleanedNames[doc] IN
  [session EXCEPT
     !.files = Append(@, [file_id |-> doc.file_id, file_name |-> cleaned_name]),
     !.movie_name = IF ~TruthyStr(@) THEN Some(cleaned_name) ELSE @]

\* Line 312: max(...) returns the first of the largest sizes.
largest_photo(image_info) ==
  LET area(p) == p.width * p.height
      i == CHOOSE i \in DOMAIN image_info :
             /\ \A j \in DOMAIN image_info : area(image_info[j]) <= area(image_info[i])
             /\ \A j \in 1..(i - 1) : area(image_info[j]) < area(image_info[i])
  IN  image_info[i]

\* Lines 314-318: the session after a photo.
WithPhoto(session, image_info) ==
  [session EXCEPT !.image = Some(largest_photo(image_info))]

\* Line 323: whether completion is checked after a photo.
ChecksAfterPhoto(user_id, session) ==
  ~IsAdmin(user_id) \/ ~session.awaiting_name_edit

\* A variant that offers the edit to nobody.
OffersEditToNobody(user_id) == FALSE

\* Line 290: whether a document is answered with the edit / continue offer
\* instead of the completion check.
OffersEdit(user_id) == IsAdmin(user_id)

\* Line 268: setdefault.
SessionOrNew(user_id) ==
  IF user_id \in DOMAIN upload_sessions THEN upload_sessions[user_id] ELSE NewSession

\* What a user has sent into the user's current (or, once it is cleared, last)
\* session: the file ids of the documents and the photo messages, each in
\* arrival order.  It starts afresh when add_movie creates a session and is not
\* read by any handler.
NothingReceived == [docs |-> <<>>, photos |-> <<>>]

ReceivedOrNew(user_id) ==
  IF user_id \in DOMAIN upload_sessions THEN received[user_id] ELSE NothingReceived

\* A document message.  The handler is registered for the storage group alone
\* (lines 900-903), so the test of line 264 always passes.
ReceiveDocument(user_id, doc) ==
  /\ Handles([op |-> "document", user |-> user_id, chat |-> STORAGE_GROUP_ID,
              arg |-> <<doc.file_id>>])
  /\ UNCHANGED <<delete_sessions, buttons>>
  /\ LET session == WithDocument(SessionOrNew(user_id), doc)
         sess == Put(upload_sessions, user_id, session)
     IN  \E ackOk \in BOOLEAN :
           IF OffersEdit(user_id)
           THEN /\ Returns(sess, << Sent("offer_edit", ackOk) >>)
                /\ edit_offered' = (edit_offered \/ ackOk)
           ELSE /\ UNCHANGED edit_offered
                /\ IF ackOk
                   THEN check_and_save_movie(sess, user_id,
                                             << Sent("file_received", TRUE) >>, TRUE)
                   ELSE Returns(sess, << Sent("file_received", FALSE) >>)
  /\ received' = Put(received, user_id,
                     [ReceivedOrNew(user_id) EXCEPT !.docs = Append(@, doc.file_id)])

\* A photo message, likewise in the storage group (lines 904-907).
ReceivePhoto(user_id, image_info) ==
  /\ Handles([op |-> "photo", user |-> user_id, chat |-> STORAGE_GROUP_ID, arg |-> <<>>])
  /\ UNCHANGED <<delete_sessions, edit_offered, buttons>>
  /\ LET session == WithPhoto(SessionOrNew(user_id), image_info)
         sess == Put(upload_sessions, user_id, session)
     IN  \E ackOk \in BOOLEAN :
           IF ackOk /\ ChecksAfterPhoto(user_id, session)
           THEN check_and_save_movie(sess, user_id,
                                     << Sent("image_received", TRUE) >>, TRUE)
           ELSE Returns(sess, << Sent("image_received", ackOk) >>)
  /\ received' = Put(received, user_id,
                     [ReceivedOrNew(user_id) EXCEPT !.photos = Append(@, image_info)])

(***************************************************************************)
(* name_decision_handler (lines 145-166): a press of "Edit Name" or         *)
(* "Continue".  The buttons exist once an offer was posted in the storage  *)
(* group, and every member of the group can press them.                    *)
(***************************************************************************)
\* A variant in which looking the session up creates it, as indexing the
\* defaultdict would.
SessionExpiredCreating(user_id) ==
  Returns(Put(upload_sessions, user_id, NewSession),
          << Sent("session_expired", TRUE) >>)

\* Lines 151-155: no session under the presser's id.
SessionExpired(user_id) ==
  Returns(upload_sessions, << Sent("session_expired", TRUE) >>)

name_decision_handler(user_id, data) ==
  /\ edit_offered
  /\ Handles([op |-> data, user |-> user_id, chat |-> STORAGE_GROUP_ID, arg |-> <<>>])
  /\ UNCHANGED <<delete_sessions, edit_offered, buttons>>
  /\ IF user_id \notin DOMAIN upload_sessions
     THEN SessionExpired(user_id)
     ELSE LET session == upload_sessions[user_id] IN
          IF data = "edit_name"
          THEN Returns(Put(upload_sessions, user_id,
                           [session EXCEPT !.awaiting_name_edit = TRUE]),
                       << Sent("ask_new_name", TRUE) >>)
          ELSE LET sess == Put(upload_sessions, user_id,
                               [session EXCEPT !.awaiting_name_edit = FALSE])
               IN  \E ackOk \in BOOLEAN :
                     IF ackOk
                     THEN check_and_save_movie(sess, user_id,
                                               << Sent("name_confirmed", TRUE) >>, FALSE)
                     ELSE Returns(sess, << Sent("name_confirmed", FALSE) >>)
  /\ UNCHANGED received

(***************************************************************************)
(* text_handler (lines 168-189)                                            *)
(***************************************************************************)
\* A variant that takes the text of every user with a session.
AcceptsNameWithoutFlag(user_id, chat) ==
  /\ chat = STORAGE_GROUP_ID
  /\ user_id \in DOMAIN upload_sessions

\* Line 177: the text is taken as the new movie name.
AcceptsName(user_id, chat) ==
  /\ chat = STORAGE_GROUP_ID
  /\ user_id \in DOMAIN upload_sessions
  /\ upload_sessions[user_id].awaiting_name_edit

text_handler(user_id, chat, text) ==
  /\ UNCHANGED <<delete_sessions, edit_offered, buttons>>
  /\ IF ~AcceptsName(user_id, chat)
     THEN Returns(upload_sessions, <<>>)
     ELSE LET new_name == sanitize_unicode(Strip(text, SpaceChars))
              sess == Put(upload_sessions, user_id,
                          [upload_sessions[user_id] EXCEPT
                             !.movie_name = Some(new_name),
                             !.awaiting_name_edit = FALSE])
          IN  \E ackOk \in BOOLEAN :
                IF ackOk
                THEN check_and_save_movie(sess, user_id,
                                          << Sent("name_updated", TRUE) >>, TRUE)
                ELSE Returns(sess, << Sent("name_updated", FALSE) >>)

(***************************************************************************)
(* list_movies (lines 605-655) and the name-sorted query it makes          *)
(***************************************************************************)
\* Code points, as far as their order goes: the characters in ascending order.
CharOrder ==
  << " ", "(", ")", "-", ".",
     "0", "1", "2", "3", "4", "5", "6", "7", "8", "9", "@",
     "A", "B", "C", "D", "E", "F", "G", "H", "I", "J", "K", "L", "M",
     "N", "O", "P", "Q", "R", "S", "T", "U", "V", "W", "X", "Y", "Z",
     "[", "]", "_",
     "a", "b", "c", "d", "e", "f", "g", "h", "i", "j", "k", "l", "m",
     "n", "o", "p", "q", "r", "s", "t", "u", "v", "w", "x", "y", "z",
     SuperscriptTwo, NonAsciiLetter, NonAsciiSymbol >>

CharCode(c) == CHOOSE i \in DOMAIN CharOrder : CharOrder[i] = c

\* a <= b in the binary string order of the storage.
NameLeqOf[a \in Str, b \in Str] ==
  IF a = <<>> THEN TRUE
  ELSE IF b = <<>> THEN FALSE
  ELSE IF Head(a) = Head(b) THEN NameLeqOf[Tail(a), Tail(b)]
  ELSE CharCode(Head(a)) < CharCode(Head(b))

NameLeq(a, b) == NameLeqOf[a, b]

\* The results find({}).sort("name", 1) can give: the records in ascending
\* name order, records of equal name in any order.  Built by inserting the
\* records one by one at every place that keeps the order.
SortedByName(records) ==
  LET Fits(s, r, k) ==
        /\ k = 0 \/ NameLeq(s[k].name, r.name)
        /\ k = Len(s) \/ NameLeq(r.name, s[k + 1].name)
      Inserts(s, r) ==
        { SubSeq(s, 1, k) \o <<r>> \o SubSeq(s, k + 1, Len(s)) :
            k \in {k \in 0..Len(s) : Fits(s, r, k)} }
      sorted[n \in 0..Len(records)] ==
        IF n = 0 THEN { <<>> }
        ELSE UNION { Inserts(s, records[n]) : s \in sorted[n - 1] }
  IN  sorted[Len(records)]

\* .skip(skip).limit(limit)
SkipLimit(records, skip, limit) ==
  SubSeq(records, skip + 1, IF skip + limit < Len(records) THEN skip + limit
                            ELSE Len(records))

\* An inline button of a posted message: its callback data, the chat it is in
\* and the user the message answered.  A button is kept once posted: the
\* same button is there again whenever an equal message is posted again.
\* number is the number the prompt of a confirm button answered and name the
\* movie name the prompt shows.
PageButton(page, chat, user_id) ==
  [data |-> "page", movie_id |-> 0, name |-> <<>>, page |-> page, number |-> 0,
   chat |-> chat, user |-> user_id]

ConfirmButton(movie, page, number, chat, user_id) ==
  [data |-> "confirm_del", movie_id |-> movie._id, name |-> movie.name,
   page |-> page, number |-> number, chat |-> chat, user |-> user_id]

\* The members of a group chat can all press the buttons in it; a private
\* chat has one member.
CanPress(user_id, b) == b.chat # "private" \/ b.user = user_id

\* Lines 634-638: the navigation row of the list message.
OffersPrevious(page) == page > 1

\* A variant that offers Next after a full last page as well.
OffersNextAfterFullPage(skip, total) == skip + PAGE_SIZE <= total

OffersNext(skip, total) == skip + PAGE_SIZE < total

\* list_movies, called for user_id in chat with page as context.args, on the
\* collection coll and after the calls said.
list_movies(user_id, chat, page, coll, said) ==
  IF ~IsAdmin(user_id)
  THEN /\ out' = said
       /\ UNCHANGED <<delete_sessions, buttons>>
  ELSE IF ~Connected
  THEN /\ out' = said \o << Sent("count_documents", FALSE) >>
       /\ UNCHANGED <<delete_sessions, buttons>>
  ELSE LET skip == (page - 1) * PAGE_SIZE
           total == Len(coll)
           previous == IF OffersPrevious(page)
                       THEN << SentAbout("previous_button", TRUE, page - 1) >> ELSE <<>>
           next == IF OffersNext(skip, total)
                   THEN << SentAbout("next_button", TRUE, page + 1) >> ELSE <<>>
           nav == previous \o next
       IN  \E sorted \in SortedByName(coll) :
             LET movies == SkipLimit(sorted, skip, PAGE_SIZE) IN
             /\ delete_sessions' = Put(delete_sessions, user_id,
                                       [page |-> page, movies |-> movies, selected |-> None])
             /\ buttons' = buttons \cup {PageButton(nav[i].ref, chat, user_id) : i \in DOMAIN nav}
             /\ out' = said \o << SentAbout("list", TRUE, total) >> \o nav

\* The chat the /list command is sent in; the command is handled alike in
\* every chat.
ListChats == {SEARCH_GROUP_ID}

\* The /list command with a page argument (line 884).
ListCommand(user_id, chat, page) ==
  /\ Handles([op |-> "list", user |-> user_id, chat |-> chat, arg |-> << page >>])
  /\ evaluated' = None
  /\ UNCHANGED <<upload_sessions, collection, next_id, edit_offered, received>>
  /\ list_movies(user_id, chat, page, collection, <<>>)

\* paginate (lines 732-739): a press of Previous or Next.
paginate(user_id, b) ==
  /\ b.data = "page"
  /\ CanPress(user_id, b)
  /\ Handles([op |-> "page", user |-> user_id, chat |-> b.chat, arg |-> <<b>>])
  /\ evaluated' = None
  /\ UNCHANGED <<upload_sessions, collection, next_id, edit_offered, received>>
  /\ list_movies(user_id, b.chat, b.page, collection, <<>>)

\* A variant that removes whatever record is stored first.
DeleteOneStoredFirst(coll, id) == IF coll = <<>> THEN coll ELSE Tail(coll)

\* delete_one({"_id": id})
DeleteOne(coll, id) == SelectSeq(coll, LAMBDA r : r._id # id)

\* confirm_number_delete (lines 743-754): a press of Confirm.
confirm_number_delete(user_id, b) ==
  /\ b.data = "confirm_del"
  /\ CanPress(user_id, b)
  /\ Handles([op |-> "confirm_del", user |-> user_id, chat |-> b.chat, arg |-> <<b>>])
  /\ evaluated' = None
  /\ UNCHANGED <<upload_sessions, next_id, edit_offered, received>>
  /\ \E deleteOk \in {ok \in BOOLEAN : ok => Connected} :
       IF ~deleteOk
       THEN /\ out' = << SentAbout("delete_one", FALSE, b.movie_id) >>
            /\ UNCHANGED <<collection, delete_sessions, buttons>>
       ELSE LET coll == DeleteOne(collection, b.movie_id)
                \* the call and the deleted_count of its result
                deleted == << SentAbout("delete_one", TRUE, b.movie_id),
                              SentAbout("deleted_count", TRUE, Len(collection) - Len(coll)) >>
            IN  /\ collection' = coll
                /\ \E editOk \in BOOLEAN :
                     IF editOk
                     THEN list_movies(user_id, b.chat, b.page, coll,
                                      deleted \o << SentAbout("deleted_notice", TRUE, b.movie_id) >>)
                     ELSE /\ out' = deleted \o
                                      << SentAbout("deleted_notice", FALSE, b.movie_id) >>
                          /\ UNCHANGED <<delete_sessions, buttons>>

\* A variant of the cancel_del branch that also forgets the selection of the
\* user who made it.
cancel_del_unselecting(user_id, b) ==
  /\ b.data = "confirm_del"
  /\ CanPress(user_id, b)
  /\ Handles([op |-> "cancel_del", user |-> user_id, chat |-> b.chat, arg |-> <<b>>])
  /\ evaluated' = None
  /\ UNCHANGED <<upload_sessions, collection, next_id, edit_offered, received>>
  /\ delete_sessions' =
       [u \in DOMAIN delete_sessions |->
          IF u = b.user THEN [delete_sessions[u] EXCEPT !.selected = None]
          ELSE delete_sessions[u]]
  /\ \E deleteOk \in BOOLEAN :
       /\ out' = << SentAbout("prompt_deleted", deleteOk, b.movie_id) >>
       /\ buttons' = IF deleteOk THEN buttons \ {b} ELSE buttons

\* The cancel_del branch of callback_router (lines 770-771): a press of Cancel
\* on the confirmation prompt that holds the Confirm button b.  The prompt is
\* deleted, and its buttons with it, unless the call raises.
cancel_del(user_id, b) ==
  /\ b.data = "confirm_del"
  /\ CanPress(user_id, b)
  /\ Handles([op |-> "cancel_del", user |-> user_id, chat |-> b.chat, arg |-> <<b>>])
  /\ evaluated' = None
  /\ UNCHANGED <<upload_sessions, delete_sessions, collection, next_id,
                 edit_offered, received>>
  /\ \E deleteOk \in BOOLEAN :
       /\ out' = << SentAbout("prompt_deleted", deleteOk, b.movie_id) >>
       /\ buttons' = IF deleteOk THEN buttons \ {b} ELSE buttons

(***************************************************************************)
(* delete_by_number (lines 677-728)                                        *)
(***************************************************************************)
\* str.isdigit()
IsDigit(text) ==
  text # <<>> /\ \A i \in DOMAIN text : text[i] \in Digits \cup {SuperscriptTwo}

\* Line 698: int(text) returns for the decimal digits and raises ValueError
\* for the other characters isdigit() lets through.
IntRaises(text) == \E i \in DOMAIN text : text[i] \notin Digits

\* int(text) of a string of digits.
DigitValue(c) == CHOOSE d \in 0..9 : CharOrder[CharCode("0") + d] = c

ToIntOf[text \in Str] ==
  IF text = <<>> THEN 0
  ELSE 10 * ToIntOf[SubSeq(text, 1, Len(text) - 1)] + DigitValue(text[Len(text)])

ToInt(text) == ToIntOf[text]

\* Line 705: the number range check.
InRange(index, movies) == ~(index < 0 \/ index >= Len(movies))

delete_by_number(user_id, chat, text) ==
  /\ evaluated' = None
  /\ UNCHANGED <<upload_sessions, collection, next_id, edit_offered>>
  /\ IF ~IsAdmin(user_id) \/ user_id \notin DOMAIN delete_sessions
     THEN /\ out' = <<>>
          /\ UNCHANGED <<delete_sessions, buttons>>
     ELSE LET stripped == Strip(text, SpaceChars) IN
          IF ~IsDigit(stripped)
          THEN /\ out' = << Sent("invalid_number", TRUE) >>
               /\ UNCHANGED <<delete_sessions, buttons>>
          ELSE IF IntRaises(stripped)
          THEN /\ out' = <<>>
               /\ UNCHANGED <<delete_sessions, buttons>>
          ELSE LET index == ToInt(stripped) - 1
                   session == delete_sessions[user_id]
               IN  IF ~InRange(index, session.movies)
                   THEN /\ out' = << Sent("out_of_range", TRUE) >>
                        /\ UNCHANGED <<delete_sessions, buttons>>
                   ELSE LET movie == session.movies[index + 1] IN
                        /\ delete_sessions' =
                             Put(delete_sessions, user_id,
                                 [session EXCEPT !.selected = Some(movie)])
                        /\ buttons' = buttons \cup
                             {ConfirmButton(movie, session.page, index + 1, chat, user_id)}
                        /\ out' = << SentAbout("confirm_prompt", TRUE, movie._id) >>

(***************************************************************************)
(* search_movie (lines 326-399)                                            *)
(***************************************************************************)
\* re.compile(re.escape(movie_name), re.IGNORECASE) searched in name.
NameMatches(name, movie_name) ==
  \E i \in 1..(Len(name) + 1) : MatchesAt(name, i, movie_name)

\* find({"name": {"$regex": ...}}).limit(10): the matching records, in the
\* order of the collection.
SearchLimit == 10

FindByName(movie_name) ==
  SkipLimit(SelectSeq(collection, LAMBDA r : NameMatches(r.name, movie_name)),
            0, SearchLimit)

RECURSIVE Previews(_, _)
Previews(results, oks) ==
  IF results = <<>> THEN <<>>
  ELSE << SentAbout("search_result", oks[1], Head(results)._id) >>
       \o Previews(Tail(results), Tail(oks))

search_movie(user_id, chat, text) ==
  /\ evaluated' = None
  /\ UNCHANGED <<upload_sessions, delete_sessions, collection, next_id, edit_offered,
                 buttons>>
  /\ IF chat # SEARCH_GROUP_ID
     THEN out' = <<>>
     ELSE LET movie_name == sanitize_unicode(Strip(text, SpaceChars)) IN
          IF movie_name = <<>>
          THEN out' = << Sent("provide_name", TRUE) >>
          ELSE \E findOk \in {ok \in BOOLEAN : ok => Connected} :
                 IF ~findOk
                 THEN out' = << Sent("find", FALSE), Sent("search_error", TRUE) >>
                 ELSE LET results == FindByName(movie_name) IN
                      IF results # <<>>
                      THEN \E oks \in [1..Len(results) -> BOOLEAN] :
                             out' = << Sent("find", TRUE) >> \o Previews(results, oks)
                      ELSE out' = << Sent("find", TRUE), Sent("no_results", TRUE) >>

(***************************************************************************)
(* The handlers of non-command text messages, in the order main registers  *)
(* them (lines 909-924).  All are in the default group, where the update   *)
(* goes to the first handler whose filter passes and to no other.          *)
(***************************************************************************)
TextHandlers ==
  << [handler |-> "text_handler", chats |-> {STORAGE_GROUP_ID}],
     [handler |-> "delete_by_number", chats |-> Chats],
     [handler |-> "search_movie", chats |-> {SEARCH_GROUP_ID}] >>

\* The handler a text message in chat is given to, "none" when no filter passes.
HandlerFor(chat) ==
  LET passing == {i \in DOMAIN TextHandlers : chat \in TextHandlers[i].chats}
  IN  IF passing = {} THEN "none"
      ELSE TextHandlers[CHOOSE i \in passing : \A j \in passing : i <= j].handler

\* A non-command text message.
TextMessage(user_id, chat, text) ==
  /\ Handles([op |-> "text", user |-> user_id, chat |-> chat, arg |-> text])
  /\ LET handler == HandlerFor(chat) IN
     CASE handler = "text_handler" -> text_handler(user_id, chat, text)
       [] handler = "delete_by_number" -> delete_by_number(user_id, chat, text)
       [] handler = "search_movie" -> search_movie(user_id, chat, text)
       [] OTHER -> /\ Returns(upload_sessions, <<>>)
                   /\ UNCHANGED <<delete_sessions, edit_offered, buttons>>
  /\ UNCHANGED received

\* The Movies collection outlives the process.  A stored library of n
\* records, as n completed uploads leave it: the names are the numbers
\* 7 * j modulo 27 for j = 1..n written with the letters a..j for the digits
\* 0..9, all different and in scrambled order.
LibraryName(j) ==
  LET k == (7 * j) % 27 IN << CharOrder[CharCode("a") + (k \div 10)],
                              CharOrder[CharCode("a") + (k % 10)] >>

LibraryRecord(j) ==
  movie_entry([files |-> << [file_id |-> "f1", file_name |-> LibraryName(j)] >>,
               image |-> Some([file_id |-> "p1l", width |-> 2, height |-> 2]),
               movie_name |-> Some(LibraryName(j)),
               awaiting_name_edit |-> FALSE], j)

Library(n) == [j \in 1..n |-> LibraryRecord(j)]

\* What the collection holds when the process starts.
StoredAtStart == { Library(0), Library(MaxStored) }

\* The state after construction (lines 135-143), over what the storage holds.
Init ==
  /\ upload_sessions = EmptyDict
  /\ delete_sessions = EmptyDict
  /\ collection \in StoredAtStart
  /\ next_id = Len(collection) + 1
  /\ edit_offered = FALSE
  /\ buttons = {}
  /\ received = EmptyDict
  /\ steps = 0
  /\ ev = [op |-> "start", user |-> "a1", chat |-> "private", arg |-> <<>>]
  /\ out = <<>>
  /\ evaluated = None
  /\ connection = Returned("collection")

Next ==
  \/ \E u \in Users, d \in Documents : ReceiveDocument(u, d)
  \/ \E u \in Users, p \in Photos : ReceivePhoto(u, p)
  \/ \E u \in Users, d \in {"edit_name", "continue_name"} : name_decision_handler(u, d)
  \/ \E u \in Users, c \in Chats, t \in Texts : TextMessage(u, c, t)
  \/ \E u \in Users, c \in ListChats, p \in 1..MaxPage : ListCommand(u, c, p)
  \/ \E u \in Users, b \in buttons : paginate(u, b)
  \/ \E u \in Users, b \in buttons : confirm_number_delete(u, b)
  \/ \E u \in Users, b \in buttons : cancel_del(u, b)

Spec == Init /\ [][Next]_vars

\* The state after an admin's /list 1 on a stored library of MaxListed
\* records, from which the delete workflow goes on.
InitListed ==
  /\ upload_sessions = EmptyDict
  /\ collection = Library(MaxListed)
  /\ next_id = MaxListed + 1
  /\ delete_sessions \in
       { [u \in {"a1"} |-> [page |-> 1, movies |-> SkipLimit(sorted, 0, PAGE_SIZE),
                            selected |-> None]] : sorted \in SortedByName(collection) }
  /\ edit_offered = FALSE
  /\ buttons = {}
  /\ received = EmptyDict
  /\ steps = 0
  /\ ev = [op |-> "list", user |-> "a1", chat |-> SEARCH_GROUP_ID, arg |-> << 1 >>]
  /\ out = << SentAbout("list", TRUE, MaxListed) >>
  /\ evaluated = None
  /\ connection = Returned("collection")

SpecListed == InitListed /\ [][Next]_vars

\* The delete workflow in the search group, with two admins and a non-admin
\* among its members, on a stored library of MaxListed records.
InitShared ==
  /\ upload_sessions = EmptyDict
  /\ delete_sessions = EmptyDict
  /\ collection = Library(MaxListed)
  /\ next_id = MaxListed + 1
  /\ edit_offered = FALSE
  /\ buttons = {}
  /\ received = EmptyDict
  /\ steps = 0
  /\ ev = [op |-> "boot", user |-> "a1", chat |-> "private", arg |-> <<>>]
  /\ out = <<>>
  /\ evaluated = None
  /\ connection = Returned("collection")

\* The texts sent there, a second number among them.
SharedTexts == Texts \cup { <<"2">> }

NextShared ==
  \/ \E u \in Members, c \in ListChats, p \in 1..MaxPage : ListCommand(u, c, p)
  \/ \E u \in Members, b \in buttons : paginate(u, b)
  \/ \E u \in Members, t \in SharedTexts : TextMessage(u, SEARCH_GROUP_ID, t)
  \/ \E u \in Members, b \in buttons : confirm_number_delete(u, b)
  \/ \E u \in Members, b \in buttons : cancel_del(u, b)

SpecShared == InitShared /\ [][NextShared]_vars

\* All handlers with all members, from a state in the middle of a run: a1 has
\* sent the document f1 and was offered the edit, n1 has sent a photo, and
\* the admins a1 and a2 have each listed page 1 of the stored library.  Two
\* more updates are handled.
HandledBefore == MaxSteps - 2

InitMembers ==
  /\ collection = Library(MaxListed)
  /\ next_id = MaxListed + 1
  /\ upload_sessions \in
       { [u \in {"a1", "n1"} |->
            IF u = "a1" THEN WithDocument(NewSession, d) ELSE WithPhoto(NewSession, p)] :
          d \in {d \in Documents : d.file_id = "f1"}, p \in Photos }
  /\ received = [u \in {"a1", "n1"} |->
                   IF u = "a1" THEN [docs |-> << "f1" >>, photos |-> <<>>]
                   ELSE [docs |-> <<>>,
                         photos |-> << CHOOSE p \in Photos :
                                         WithPhoto(NewSession, p) = upload_sessions["n1"] >>]]
  /\ delete_sessions \in
       { [u \in {"a1", "a2"} |-> [page |-> 1, movies |-> SkipLimit(sorted, 0, PAGE_SIZE),
                                  selected |-> None]] : sorted \in SortedByName(collection) }
  /\ edit_offered = TRUE
  /\ buttons = {}
  /\ steps = HandledBefore
  /\ ev = [op |-> "list", user |-> "a2", chat |-> SEARCH_GROUP_ID, arg |-> << 1 >>]
  /\ out = << SentAbout("list", TRUE, MaxListed) >>
  /\ evaluated = None
  /\ connection = Returned("collection")

NextMembers ==
  \/ \E u \in Members, d \in Documents : ReceiveDocument(u, d)
  \/ \E u \in Members, p \in Photos : ReceivePhoto(u, p)
  \/ \E u \in Members, d \in {"edit_name", "continue_name"} : name_decision_handler(u, d)
  \/ \E u \in Members, c \in Chats, t \in Texts : TextMessage(u, c, t)
  \/ \E u \in Members, c \in ListChats, p \in 1..MaxPage : ListCommand(u, c, p)
  \/ \E u \in Members, b \in buttons : paginate(u, b)
  \/ \E u \in Members, b \in buttons : confirm_number_delete(u, b)
  \/ \E u \in Members, b \in buttons : cancel_del(u, b)

SpecMembers == InitMembers /\ [][NextMembers]_vars

\* The release-name scenario: uploads of the scenario document with posters
\* and presses of the two name buttons, and no name typed in.
NextScenario ==
  \/ \E u \in Users, d \in ScenarioDocuments : ReceiveDocument(u, d)
  \/ \E u \in Users, p \in Photos : ReceivePhoto(u, p)
  \/ \E u \in Users, d \in {"edit_name", "continue_name"} : name_decision_handler(u, d)

SpecScenario == Init /\ [][NextScenario]_vars

(***************************************************************************)
(* clean_filename as a function: file names to apply it to, and its        *)
(* application to a name and again to its own result.                      *)
(***************************************************************************)
\* words joined by sep.
JoinOf[words \in Seq(Str), sep \in Str] ==
  IF words = <<>> THEN <<>>
  ELSE IF Len(words) = 1 THEN words[1]
  ELSE words[1] \o sep \o JoinOf[Tail(words), sep]

Join(words, sep) == JoinOf[words, sep]

\* The sequences of 1..n elements of a set.
SeqsUpTo(set, n) == UNION { [1..k -> set] : k \in 1..n }

\* Raw file names that hold a title, a 4-digit year and a language in every
\* order, with one separator between the parts and the words of the title.
RawWords == { <<"U", "p">>, <<"B", "i", "g">> }
RawSeparators == { <<" ">>, <<".">>, <<"_">>, <<"-">> }
RawYears == { <<"2", "0", "0", "9">>, <<"(", "2", "0", "0", "9", ")">> }
RawLanguages == { <<"T", "a", "m", "i", "l">>, <<"E", "N", "G", "L", "I", "S", "H">> }
RawExtensions == { <<>>, <<".", "m", "k", "v">> }
RawOrders == { order \in [1..3 -> {"title", "year", "language"}] :
                 \A i, j \in 1..3 : order[i] = order[j] => i = j }

RawFilenames ==
  { Join([i \in 1..3 |-> CASE order[i] = "title" -> Join(words, sep)
                            [] order[i] = "year" -> year
                            [] OTHER -> language], sep) \o extension :
      words \in SeqsUpTo(RawWords, MaxTitleWords), sep \in RawSeparators,
      year \in RawYears, language \in RawLanguages, extension \in RawExtensions,
      order \in RawOrders }

\* Clean titles: single-spaced words without a tag, among them a word of four
\* digits, with or without a " (Year)" and a language after them.
TitleWords == { <<"U", "p">>, <<"B", "i", "g">>, <<"2", "0", "1", "2">> }
YearSuffixes == { <<>>, <<" ", "(", "2", "0", "0", "9", ")">> }
LanguageSuffixes == { <<>>, <<" ", "T", "a", "m", "i", "l">> }

CleanTitles ==
  { Join(words, <<" ">>) \o year \o language :
      words \in SeqsUpTo(TitleWords, MaxTitleWords),
      year \in YearSuffixes, language \in LanguageSuffixes }

\* A name is given, raw or clean.
InitClean ==
  /\ upload_sessions = EmptyDict
  /\ delete_sessions = EmptyDict
  /\ collection = Library(0)
  /\ next_id = 1
  /\ edit_offered = FALSE
  /\ buttons = {}
  /\ received = EmptyDict
  /\ steps = 0
  /\ \/ \E f \in RawFilenames :
          ev = [op |-> "raw_filename", user |-> "a1", chat |-> STORAGE_GROUP_ID, arg |-> f]
     \/ \E t \in CleanTitles :
          ev = [op |-> "clean_title", user |-> "a1", chat |-> STORAGE_GROUP_ID, arg |-> t]
  /\ out = <<>>
  /\ evaluated = None
  /\ connection = Returned("collection")

\* clean_filename is applied to the name, and then to its last result; out
\* lists the results.
Normalize ==
  /\ Handles(ev)
  /\ UNCHANGED <<upload_sessions, delete_sessions, collection, next_id,
                 edit_offered, buttons, received, evaluated>>
  /\ LET filename == IF out = <<>> THEN ev.arg ELSE out[Len(out)].ref
     IN  out' = Append(out, SentAbout("clean_filename", TRUE, clean_filename(filename)))

NextClean == Normalize

SpecClean == InitClean /\ [][NextClean]_vars

\* The process from its start: connect_mongo runs first, then the handlers.
InitBoot ==
  /\ upload_sessions = EmptyDict
  /\ delete_sessions = EmptyDict
  /\ collection \in StoredAtStart
  /\ next_id = Len(collection) + 1
  /\ edit_offered = FALSE
  /\ buttons = {}
  /\ received = EmptyDict
  /\ steps = 0
  /\ ev = [op |-> "boot", user |-> "a1", chat |-> "private", arg |-> <<>>]
  /\ out = <<>>
  /\ evaluated = None
  /\ connection = Connecting(Retries)

NextBoot ==
  \/ connect_mongo
  \/ Next

SpecBoot == InitBoot /\ [][NextBoot]_vars

\* Each turn of the loop of connect_mongo ends and the next one is taken.
SpecBootFair == SpecBoot /\ WF_vars(connect_mongo)

\* Listing: the process starts on a stored library of any size up to
\* MaxTotal, and pages of it are asked for by command and by button.
InitList ==
  /\ upload_sessions = EmptyDict
  /\ delete_sessions = EmptyDict
  /\ collection \in { Library(n) : n \in 0..MaxTotal }
  /\ next_id = Len(collection) + 1
  /\ edit_offered = FALSE
  /\ buttons = {}
  /\ received = EmptyDict
  /\ steps = 0
  /\ ev = [op |-> "start", user |-> "a1", chat |-> "private", arg |-> <<>>]
  /\ out = <<>>
  /\ evaluated = None
  /\ connection = Returned("collection")

NextList ==
  \/ \E u \in Users, c \in ListChats, p \in 1..MaxPage : ListCommand(u, c, p)
  \/ \E u \in Users, b \in buttons : paginate(u, b)

SpecList == InitList /\ [][NextList]_vars

(***************************************************************************)
(* Delivery of a record's documents: start with a deep-link argument       *)
(* (lines 454-482) and get_movie_files (lines 402-449)                     *)
(***************************************************************************)
\* file_id of the documents of a stored record, in upload order.
FileIds == << "f1", "f2", "f3", "f4", "f5" >>

\* A stored record with k documents.
ShelfRecord(j, k) ==
  [LibraryRecord(j) EXCEPT
     !.media.documents = [i \in 1..k |-> [file_id |-> FileIds[i],
                                          file_name |-> LibraryName(j)]]]

\* movie_id values an update can carry: those of the stored records and one
\* that no record has.
MovieIds == 0..2

\* collection.find_one({"movie_id": movie_id})
FindOne(coll, movie_id) ==
  IF \E j \in DOMAIN coll : coll[j].movie_id = movie_id
  THEN Some(coll[CHOOSE j \in DOMAIN coll :
                   /\ coll[j].movie_id = movie_id
                   /\ \A h \in 1..(j - 1) : coll[h].movie_id # movie_id])
  ELSE None

\* Lines 476-480: the loop of start awaits each send_document outside any
\* try block, so the first send that raises ends the loop and the handler.
StartSends(documents) ==
  { [i \in 1..Len(documents) |-> SentAbout("document", TRUE, documents[i].file_id)] }
    \cup { [i \in 1..m |-> SentAbout("document", i # m, documents[i].file_id)] :
             m \in 1..Len(documents) }

\* Lines 421-433: the loop of get_movie_files catches and logs the exception
\* of each send_document and goes on with the next document.
FilesSends(documents) ==
  { [i \in 1..Len(documents) |-> SentAbout("document", oks[i], documents[i].file_id)] :
      oks \in [1..Len(documents) -> BOOLEAN] }

\* start (lines 454-509), args being context.args.
start(user_id, args) ==
  /\ Handles([op |-> "start", user |-> user_id, chat |-> "private", arg |-> args])
  /\ evaluated' = None
  /\ UNCHANGED <<upload_sessions, delete_sessions, collection, next_id,
                 edit_offered, buttons, received>>
  /\ LET found == IF args = <<>> THEN None ELSE FindOne(collection, args[1]) IN
     IF args # <<>> /\ ~Connected
     THEN out' = << Sent("find_one", FALSE) >>
     ELSE IF found # None
     THEN LET movie == found[1] IN
          \E photoOk \in BOOLEAN :
            IF photoOk
            THEN \E sends \in StartSends(movie.media.documents) :
                   out' = << SentAbout("photo", TRUE, movie._id) >> \o sends
            ELSE out' = << SentAbout("photo", FALSE, movie._id) >>
     ELSE out' = << Sent("home", TRUE) >>

\* get_movie_files (lines 402-449), for a press of a button whose callback
\* data is movie_<movie_id>.
get_movie_files(user_id, movie_id) ==
  /\ Handles([op |-> "movie_files", user |-> user_id, chat |-> SEARCH_GROUP_ID,
              arg |-> << movie_id >>])
  /\ evaluated' = None
  /\ UNCHANGED <<upload_sessions, delete_sessions, collection, next_id,
                 edit_offered, buttons, received>>
  /\ LET found == FindOne(collection, movie_id) IN
     IF ~Connected
     THEN out' = << Sent("find_one", FALSE), Sent("fetch_error", TRUE) >>
     ELSE IF found = None
     THEN out' = << Sent("no_files", TRUE) >>
     ELSE LET movie == found[1] IN
          \E announceOk \in BOOLEAN :
            IF ~announceOk
            THEN out' = << SentAbout("sending", FALSE, movie._id),
                           Sent("fetch_error", TRUE) >>
            ELSE \E sends \in FilesSends(movie.media.documents), doneOk \in BOOLEAN :
                   out' = << SentAbout("sending", TRUE, movie._id) >> \o sends
                            \o << SentAbout("all_sent", doneOk, movie._id) >>
                            \o (IF doneOk THEN <<>> ELSE << Sent("fetch_error", TRUE) >>)

\* Delivery: the process starts on stored records with one to MaxDocs
\* documents.
InitDeliver ==
  /\ upload_sessions = EmptyDict
  /\ delete_sessions = EmptyDict
  /\ collection \in { << ShelfRecord(1, k), ShelfRecord(2, 1) >> : k \in 1..MaxDocs }
  /\ next_id = Len(collection) + 1
  /\ edit_offered = FALSE
  /\ buttons = {}
  /\ received = EmptyDict
  /\ steps = 0
  /\ ev = [op |-> "boot", user |-> "a1", chat |-> "private", arg |-> <<>>]
  /\ out = <<>>
  /\ evaluated = None
  /\ connection = Returned("collection")

NextDeliver ==
  \/ \E u \in Users, args \in {<<>>} \cup { <<id>> : id \in MovieIds } : start(u, args)
  \/ \E u \in Users, id \in MovieIds : get_movie_files(u, id)

SpecDeliver == InitDeliver /\ [][NextDeliver]_vars

(***************************************************************************)
(* What the last step did, read from the calls it made.                    *)
(***************************************************************************)
Did(kind) == \E i \in DOMAIN out : out[i].kind = kind
DidOk(kind) == \E i \in DOMAIN out : out[i].kind = kind /\ out[i].ok
DidFail(kind) == \E i \in DOMAIN out : out[i].kind = kind /\ ~out[i].ok
AllCallsOk == \A i \in DOMAIN out : out[i].ok

\* The last step inserted a record; it is the last of the collection.
InsertedNow == DidOk("insert")
LastRecord == collection[Len(collection)]

\* The completion predicate as the specification words it: files non-empty,
\* image set, movie_name set, and no name edit awaited.
ReadyToPersist(session) ==
  /\ session.files # <<>>
  /\ session.image # None
  /\ session.movie_name # None /\ session.movie_name[1] # <<>>
  /\ ~session.awaiting_name_edit

(***************************************************************************)
(* C1: a record is inserted for a user only in a step where the user's     *)
(* session has files, an image, a movie name and awaiting_name_edit false, *)
(* for admins and non-admins alike.                                        *)
(***************************************************************************)
C1_InsertOnlyWhenReady ==
  InsertedNow => evaluated # None /\ ReadyToPersist(evaluated[1])

(***************************************************************************)
(* C2: persistence is triggered in the step in which the last missing      *)
(* condition becomes true, so no event leaves a session with files, image  *)
(* and name set and no edit pending.  Stated for the steps that evaluate   *)
(* completion and in which every call to storage and transport succeeded.  *)
(***************************************************************************)
C2_NoReadySessionLeft ==
  (evaluated # None /\ AllCallsOk) =>
    ~(ev.user \in DOMAIN upload_sessions /\ ReadyToPersist(upload_sessions[ev.user]))

(***************************************************************************)
(* C3: whenever the insert of a completion evaluation succeeds, the user's *)
(* session is removed in that same step, whether or not the confirmation   *)
(* reply or the preview succeeds.                                          *)
(***************************************************************************)
C3_SessionRemovedOnInsert ==
  InsertedNow => ev.user \notin DOMAIN upload_sessions

(***************************************************************************)
(* C4: when the insert fails, a failure notice is emitted, no record is    *)
(* added and the session is left as it was before the evaluation.          *)
(***************************************************************************)
C4_FailedInsertKeepsSession ==
  DidFail("insert") =>
    /\ Did("failed")
    /\ \A i \in DOMAIN out : \A j \in DOMAIN collection :
         out[i].kind = "insert" => collection[j]._id # out[i].ref
    /\ evaluated # None
    /\ ev.user \in DOMAIN upload_sessions
    /\ upload_sessions[ev.user] = evaluated[1]

(***************************************************************************)
(* C5: the inserted record has the session's movie_name of that moment     *)
(* (the text just submitted, when a text event completes the session), the *)
(* files received in the session in arrival order, and the largest size of *)
(* the photo received last.                                                *)
(***************************************************************************)
C5_RecordMatchesSession ==
  InsertedNow =>
    LET r == LastRecord
        got == received[ev.user]
        lastPhoto == got.photos[Len(got.photos)]
    IN  /\ evaluated # None
        /\ r.name = evaluated[1].movie_name[1]
        /\ ev.op = "text" => r.name = ev.arg
        /\ [i \in DOMAIN r.media.documents |-> r.media.documents[i].file_id] = got.docs
        /\ got.photos # <<>>
        /\ \E i \in DOMAIN lastPhoto :
             /\ r.media.image = lastPhoto[i]
             /\ \A j \in DOMAIN lastPhoto :
                  lastPhoto[j].width * lastPhoto[j].height
                    <= lastPhoto[i].width * lastPhoto[i].height

\* A record made of two different documents and the second of two different
\* photos.
C5_Witness ==
  /\ InsertedNow
  /\ Len(LastRecord.media.documents) = 2
  /\ LastRecord.media.documents[1].file_id # LastRecord.media.documents[2].file_id
  /\ Len(received[ev.user].photos) = 2
  /\ received[ev.user].photos[1] # received[ev.user].photos[2]

(***************************************************************************)
(* C6: a non-admin without a session who sends a document and then a       *)
(* poster (storage succeeding, the replies delivered) gets one record      *)
(* persisted at the image step, and is never offered the edit prompt.      *)
(***************************************************************************)
C6_NonAdminAutoPersists ==
  /\ ~IsAdmin(ev.user) => ~Did("offer_edit")
  /\ ( /\ ev.op = "photo"
       /\ ~IsAdmin(ev.user)
       /\ Len(received[ev.user].docs) = 1
       /\ Len(received[ev.user].photos) = 1
       /\ DidOk("image_received")
       /\ ~DidFail("insert")
       /\ evaluated # None
       /\ ~evaluated[1].awaiting_name_edit )
     => InsertedNow

(***************************************************************************)
(* C7: awaiting_name_edit is true only in sessions of users in ADMIN_IDS.  *)
(***************************************************************************)
C7_AwaitingOnlyForAdmins ==
  \A u \in DOMAIN upload_sessions :
    upload_sessions[u].awaiting_name_edit => u \in ADMIN_IDS

(***************************************************************************)
(* C8: a text event changes an upload session only if its sender awaits a  *)
(* name edit and it comes from the storage chat; then the sender's         *)
(* movie_name becomes the text, the flag is cleared and (the reply about   *)
(* the new name delivered) completion is evaluated on that session.  Any   *)
(* other text event leaves the upload sessions and the collection as they  *)
(* were.                                                                   *)
(***************************************************************************)
C8_TextStep ==
  LET u == ev'.user
      renamed == [upload_sessions[u] EXCEPT !.movie_name = Some(ev'.arg),
                                            !.awaiting_name_edit = FALSE]
  IN  (ev'.op = "text" /\ steps' = steps + 1) =>
        IF /\ ev'.chat = STORAGE_GROUP_ID
           /\ u \in DOMAIN upload_sessions
           /\ upload_sessions[u].awaiting_name_edit
        THEN /\ \A v \in Users \ {u} :
                  /\ v \in DOMAIN upload_sessions' <=> v \in DOMAIN upload_sessions
                  /\ v \in DOMAIN upload_sessions => upload_sessions'[v] = upload_sessions[v]
             /\ u \in DOMAIN upload_sessions' => upload_sessions'[u] = renamed
             /\ u \notin DOMAIN upload_sessions' => InsertedNow'
             /\ DidOk("name_updated")' => evaluated' = Some(renamed)
        ELSE /\ upload_sessions' = upload_sessions
             /\ collection' = collection

C9_NumberInStorageChatSelects ==
  ( /\ ev.op = "text"
    /\ ev.chat = STORAGE_GROUP_ID
    /\ IsAdmin(ev.user)
    /\ ~Did("name_updated")
    /\ ev.user \in DOMAIN delete_sessions
    /\ ev.arg = <<"1">>
    /\ Len(delete_sessions[ev.user].movies) >= 1 )
  => /\ Did("confirm_prompt")
     /\ delete_sessions[ev.user].selected # None

(***************************************************************************)
(* C10: every non-command text message in the search group is answered by  *)
(* the search operation, with results, with "no results", or with its      *)
(* error reply when the query fails.                                       *)
(***************************************************************************)
C10_SearchGroupTextIsSearched ==
  (ev.op = "text" /\ ev.chat = SEARCH_GROUP_ID) =>
    Did("search_result") \/ Did("no_results") \/ Did("search_error")

(***************************************************************************)
(* C11: a press of Edit Name or Continue by a user without an upload       *)
(* session emits the "session expired" reply and changes nothing: no       *)
(* session is created, the other sessions stay as they are and no record   *)
(* is persisted.                                                           *)
(***************************************************************************)
C11_Step ==
  ( /\ ev'.op \in {"edit_name", "continue_name"}
    /\ steps' = steps + 1
    /\ ev'.user \notin DOMAIN upload_sessions )
  => /\ Did("session_expired")'
     /\ upload_sessions' = upload_sessions
     /\ collection' = collection

C11_NoSessionPressChangesNothing == [][C11_Step]_vars

\* Continue pressed by a user without a session while another user has one.
C11_Witness ==
  /\ ev.op = "continue_name"
  /\ Did("session_expired")
  /\ ev.user \notin DOMAIN upload_sessions
  /\ DOMAIN upload_sessions # {}

(***************************************************************************)
(* C12: a text given to select-by-number (a text outside the storage chat) *)
(* by an admin with a delete session sets selected to the cached           *)
(* movies[n-1] exactly when it is a number n with 1 <= n <= len(movies);   *)
(* for every other text a user error is reported and the delete session    *)
(* and the collection are unchanged.  For a non-admin or an actor without  *)
(* a delete session nothing changes and nothing is sent.                   *)
(***************************************************************************)
C12_Step ==
  LET u == ev'.user
      text == ev'.arg
      numeric == text # <<>> /\ \A i \in DOMAIN text : text[i] \in Digits
  IN  ( /\ ev'.op = "text"
        /\ steps' = steps + 1
        /\ ev'.chat # STORAGE_GROUP_ID )
      => IF u \in ADMIN_IDS /\ u \in DOMAIN delete_sessions
         THEN LET session == delete_sessions[u] IN
              IF numeric /\ ToInt(text) >= 1 /\ ToInt(text) <= Len(session.movies)
              THEN delete_sessions' =
                     [delete_sessions EXCEPT
                        ![u] = [session EXCEPT
                                  !.selected = Some(session.movies[ToInt(text)])]]
              ELSE /\ Did("invalid_number")' \/ Did("out_of_range")'
                   /\ delete_sessions' = delete_sessions
                   /\ collection' = collection
         ELSE /\ out' = <<>>
              /\ UNCHANGED <<upload_sessions, delete_sessions, collection>>

C12_SelectByNumber == [][C12_Step]_vars

(***************************************************************************)
(* C13: the Confirm button of a prompt carries the record that was at the  *)
(* selected number of the snapshot, and pressing it removes exactly the    *)
(* record of that identity and no other, wherever the live name-sorted     *)
(* listing has that record by then.                                        *)
(***************************************************************************)
C13_Step ==
  /\ (ev'.op = "text" /\ steps' = steps + 1 /\ Did("confirm_prompt")') =>
       \A b \in buttons' \ buttons :
         LET shown == delete_sessions[ev'.user].movies[ToInt(ev'.arg)] IN
         /\ b.number = ToInt(ev'.arg)
         /\ b.movie_id = shown._id
         /\ b.name = shown.name
  /\ (ev'.op = "confirm_del" /\ steps' = steps + 1) =>
       LET b == ev'.arg[1] IN
       IF DidOk("delete_one")'
       THEN collection' = SelectSeq(collection, LAMBDA r : r._id # b.movie_id)
       ELSE collection' = collection

C13_DeletesSnapshotRecord == [][C13_Step]_vars

\* The place of a name in the live name-sorted listing of the collection.
LivePlace(name) ==
  1 + Cardinality({j \in DOMAIN collection :
                     collection[j].name # name /\ NameLeq(collection[j].name, name)})

\* A confirm removed the record of its prompt when the live listing had
\* another record at the number the prompt answered.
C13_Witness ==
  /\ ev.op = "confirm_del"
  /\ \E i \in DOMAIN out : out[i].kind = "deleted_count" /\ out[i].ref = 1
  /\ ev.arg[1].page = 1
  /\ ev.arg[1].number # LivePlace(ev.arg[1].name)

(***************************************************************************)
(* C14: for every number of stored records and every page p >= 1, the list *)
(* shows the records at the sorted positions (p-1)*PAGE_SIZE+1 ..          *)
(* min(p*PAGE_SIZE, total), offers Previous iff p > 1 and offers Next iff  *)
(* (p-1)*PAGE_SIZE + PAGE_SIZE < total.                                    *)
(***************************************************************************)
C14_PageShown ==
  Did("list") =>
    LET shown == delete_sessions[ev.user]
        p == shown.page
        total == Len(collection)
        first == (p - 1) * PAGE_SIZE + 1
        last == IF p * PAGE_SIZE < total THEN p * PAGE_SIZE ELSE total
    IN  /\ p >= 1
        /\ Len(shown.movies) = IF last >= first THEN last - first + 1 ELSE 0
        /\ \A i \in DOMAIN shown.movies :
             /\ \E j \in DOMAIN collection : collection[j] = shown.movies[i]
             /\ LivePlace(shown.movies[i].name) = first + i - 1
        /\ Did("previous_button") <=> p > 1
        /\ Did("next_button") <=> (p - 1) * PAGE_SIZE + PAGE_SIZE < total

\* 25 records: page 3 shows the records 21-25 with Previous only.
C14_Witness ==
  /\ Did("list")
  /\ Len(collection) = 25
  /\ delete_sessions[ev.user].page = 3
  /\ Len(delete_sessions[ev.user].movies) = 5
  /\ Did("previous_button")
  /\ ~Did("next_button")

(***************************************************************************)
(* C15: after a confirmed deletion the record with the confirmed identity  *)
(* is absent from storage, and the list is run again for the return page,  *)
(* so that the delete session of the actor who confirmed holds the fresh   *)
(* snapshot of that page, which does not contain the deleted record.       *)
(***************************************************************************)
C15_ConfirmRelists ==
  (ev.op = "confirm_del" /\ AllCallsOk) =>
    LET b == ev.arg[1]
        skip == (b.page - 1) * PAGE_SIZE
    IN  /\ \A j \in DOMAIN collection : collection[j]._id # b.movie_id
        /\ ev.user \in DOMAIN delete_sessions
        /\ delete_sessions[ev.user].page = b.page
        /\ \E sorted \in SortedByName(collection) :
             delete_sessions[ev.user].movies = SkipLimit(sorted, skip, PAGE_SIZE)
        /\ \A i \in DOMAIN delete_sessions[ev.user].movies :
             delete_sessions[ev.user].movies[i]._id # b.movie_id

(***************************************************************************)
(* C16: when the documents of a record are delivered (deep-link start and  *)
(* the download callback), a failed send of one document does not stop the *)
(* delivery: a send is attempted for every document of the record, in      *)
(* order, whatever became of the earlier sends.                            *)
(***************************************************************************)
AttemptedDocuments ==
  LET attempts == SelectSeq(out, LAMBDA call : call.kind = "document")
  IN  [i \in DOMAIN attempts |-> attempts[i].ref]

DeliveredRecord == FindOne(collection, ev.arg[1])[1]

\* The delivery loop was entered: the send before it succeeded.
DeliveryBegan ==
  \/ ev.op = "start" /\ DidOk("photo")
  \/ ev.op = "movie_files" /\ DidOk("sending")

C16_EveryDocumentAttempted ==
  DeliveryBegan =>
    AttemptedDocuments = [i \in DOMAIN DeliveredRecord.media.documents |->
                            DeliveredRecord.media.documents[i].file_id]

\* The download callback alone.
C16_CallbackAttemptsEveryDocument ==
  (DeliveryBegan /\ ev.op = "movie_files") =>
    AttemptedDocuments = [i \in DOMAIN DeliveredRecord.media.documents |->
                            DeliveredRecord.media.documents[i].file_id]

(***************************************************************************)
(* C17: connection establishment always terminates: it returns the         *)
(* collection on the first successful attempt, and after 5 consecutive     *)
(* connection-timeout failures it gives up and returns no collection; from *)
(* then on persistence is disabled for the process lifetime: every         *)
(* completion evaluation ends in a failure notice with no record stored    *)
(* and the session kept.                                                   *)
(***************************************************************************)
\* The last step evaluated a complete session while collection is None.
C17_EvaluatedWhileDisabled ==
  /\ connection.returned = "None"
  /\ evaluated # None
  /\ HasAllRequired(evaluated[1])

C17_DisabledEvaluationFails ==
  C17_EvaluatedWhileDisabled =>
    /\ Did("failed")
    /\ ~DidOk("insert")
    /\ ev.user \in DOMAIN upload_sessions
    /\ upload_sessions[ev.user] = evaluated[1]

\* The same for the evaluations that a message update brings about.
C17_DisabledMessageEvaluationFails ==
  (C17_EvaluatedWhileDisabled /\ ev.op # "continue_name") =>
    /\ Did("failed")
    /\ ~DidOk("insert")
    /\ ev.user \in DOMAIN upload_sessions
    /\ upload_sessions[ev.user] = evaluated[1]

\* While disabled nothing is ever stored or removed.
C17_DisabledStoresNothing ==
  [][connection.returned = "None" => collection' = collection]_vars

\* connect_mongo returns the collection at the first attempt that succeeds,
\* and None at the fifth timeout in a row and not before.
C17_ConnectReturns ==
  [][connection.returned = "pending" /\ connection' # connection =>
       /\ ev'.arg = << "connected" >> => connection' = Returned("collection")
       /\ connection'.returned = "None" <=>
            (ev'.arg = << "ServerSelectionTimeoutError" >> /\ connection.retries = 1)
       /\ connection'.returned = "pending" =>
            /\ ev'.arg = << "ServerSelectionTimeoutError" >>
            /\ connection'.retries = connection.retries - 1
            /\ connection'.retries > 0]_vars

\* connect_mongo returns or raises.
C17_ConnectTerminates == <>(connection.returned # "pending")

\* Once returned, what the name collection is bound to never changes.
C17_DisabledForLife ==
  [][connection.returned # "pending" => connection' = connection]_vars

(***************************************************************************)
(* C18: clean_filename of "Movie.Title.2021.1080p.WEB-DL.x264.mkv" is      *)
(* "Movie Title (2021)", and that string becomes the movie_name of the     *)
(* uploader's session and the name of the record persisted after the       *)
(* poster arrives.                                                         *)
(***************************************************************************)
C18_Expected ==
  <<"M", "o", "v", "i", "e", " ", "T", "i", "t", "l", "e", " ", "(", "2", "0", "2", "1", ")">>

\* The record inserted in the last step holds the scenario document first.
C18_ScenarioRecord ==
  /\ InsertedNow
  /\ LastRecord.media.documents[1].file_id = "f3"

C18_ScenarioName ==
  /\ \A u \in DOMAIN upload_sessions :
       (upload_sessions[u].files # <<>> /\ upload_sessions[u].files[1].file_id = "f3")
         => upload_sessions[u].movie_name = Some(C18_Expected)
  /\ C18_ScenarioRecord => LastRecord.name = C18_Expected

\* What the code makes of the scenario file name.
C18_CodeResult ==
  <<"M", "o", "v", "i", "e", ".", "T", "i", "t", "l", "e", " ", "(", "2", "0", "2", "1", ")">>

C18_ScenarioNameOfCode ==
  /\ \A u \in DOMAIN upload_sessions :
       (upload_sessions[u].files # <<>> /\ upload_sessions[u].files[1].file_id = "f3")
         => upload_sessions[u].movie_name = Some(C18_CodeResult)
  /\ C18_ScenarioRecord => LastRecord.name = C18_CodeResult

(***************************************************************************)
(* C19: for every raw file name that contains a 4-digit year and one of    *)
(* the languages, wherever they occur and whatever separators surround     *)
(* them, clean_filename returns a string of the exact form                 *)
(* "Title (Year) Language" with a non-empty, single-spaced, trimmed Title. *)
(***************************************************************************)
\* r is Title, " (", four digits, ") " and a language, the title non-empty
\* and trimmed, and no two spaces in a row anywhere.
IsTitleYearLanguage(r) ==
  /\ \A i \in 1..(Len(r) - 1) : ~(r[i] = " " /\ r[i + 1] = " ")
  /\ \E k \in 1..Len(r) :
       /\ r[1] # " " /\ r[k] # " "
       /\ k + 8 < Len(r)
       /\ r[k + 1] = " " /\ r[k + 2] = "("
       /\ \A d \in 3..6 : r[k + d] \in Digits
       /\ r[k + 7] = ")" /\ r[k + 8] = " "
       /\ \E i \in DOMAIN Languages :
            /\ Len(r) = k + 8 + Len(Languages[i])
            /\ MatchesAt(r, k + 9, Languages[i])

C19_RawGivesTitleYearLanguage ==
  (ev.op = "raw_filename" /\ out # <<>>) => IsTitleYearLanguage(out[1].ref)

\* The names that read title, year, language with spaces or underscores
\* between the parts.
C19_Spaced ==
  \E words \in SeqsUpTo(RawWords, MaxTitleWords), sep \in { <<" ">>, <<"_">> },
     year \in RawYears, language \in RawLanguages, extension \in RawExtensions :
    ev.arg = Join(<< Join(words, sep), year, language >>, sep) \o extension

C19_SpacedGivesTitleYearLanguage ==
  (ev.op = "raw_filename" /\ out # <<>> /\ C19_Spaced) => IsTitleYearLanguage(out[1].ref)

(***************************************************************************)
(* C20: clean_filename is idempotent on already-clean titles without a     *)
(* denylisted tag: for every such title t, with or without a " (Year)" and *)
(* a language after it, titles that start with or consist of 4 digits      *)
(* included, clean_filename(t) = t, and so applying it again changes       *)
(* nothing.                                                                *)
(***************************************************************************)
C20_CleanTitleUnchanged ==
  (ev.op = "clean_title" /\ out # <<>>) =>
    \A i \in DOMAIN out : out[i].ref = ev.arg

\* The clean titles none of whose words is four digits.
C20_NoYearLikeWord ==
  \E words \in SeqsUpTo(TitleWords \ { <<"2", "0", "1", "2">> }, MaxTitleWords),
     year \in YearSuffixes, language \in LanguageSuffixes :
    ev.arg = Join(words, <<" ">>) \o year \o language

C20_PlainCleanTitleUnchanged ==
  (ev.op = "clean_title" /\ out # <<>> /\ C20_NoYearLikeWord) =>
    \A i \in DOMAIN out : out[i].ref = ev.arg

\* Applying clean_filename to its own result of a clean title.
C20_SecondPassChangesNothing ==
  (ev.op = "clean_title" /\ Len(out) >= 2) =>
    \A i \in 2..Len(out) : out[i].ref = out[1].ref

\* The same for its results of the raw file names.
C20_SecondPassOnRawChangesNothing ==
  (ev.op = "raw_filename" /\ Len(out) >= 2) =>
    \A i \in 2..Len(out) : out[i].ref = out[1].ref

(***************************************************************************)
(* C21: a document from an admin is answered with the edit / continue      *)
(* offer and no record is inserted in that step, even when the session     *)
(* already has an image and a name; the record of an admin's session is    *)
(* inserted only by a later Continue press, name text or photo.            *)
(***************************************************************************)
C21_AdminDocumentOffersEdit ==
  /\ (ev.op = "document" /\ IsAdmin(ev.user)) =>
       /\ Did("offer_edit")
       /\ ~Did("insert")
       /\ evaluated = None
       /\ ev.user \in DOMAIN upload_sessions
  /\ (Did("insert") /\ IsAdmin(ev.user)) =>
       ev.op \in {"continue_name", "text", "photo"}

\* An admin's document arrives in a session that has an image and a name.
C21_Witness ==
  /\ ev.op = "document"
  /\ IsAdmin(ev.user)
  /\ DidOk("offer_edit")
  /\ HasAllRequired(upload_sessions[ev.user])
  /\ Len(upload_sessions[ev.user].files) = 2

(***************************************************************************)
(* C22: within one upload session movie_name is set by the first received  *)
(* document to that document's cleaned name and no later document changes  *)
(* it; afterwards it changes only through a name text, which replaces it   *)
(* once per edit request (a second text without a new request has no       *)
(* effect).                                                                *)
(***************************************************************************)
C22_Step ==
  \A u \in Users :
    u \in DOMAIN upload_sessions' =>
      LET before == IF u \in DOMAIN upload_sessions THEN upload_sessions[u] ELSE NewSession
          after == upload_sessions'[u]
          document == ev'.op = "document" /\ ev'.user = u
      IN  /\ (document /\ before.files = <<>>) =>
               after.movie_name = Some(after.files[1].file_name)
          /\ (document /\ before.files # <<>>) =>
               after.movie_name = before.movie_name
          /\ after.movie_name # before.movie_name =>
               \/ document /\ before.files = <<>>
               \/ /\ ev'.op = "text" /\ ev'.user = u
                  /\ before.awaiting_name_edit
                  /\ ~after.awaiting_name_edit

C22_NameSetOnceByFirstDocument == [][C22_Step]_vars

\* The same for the sessions whose first document has a non-empty cleaned
\* name.
C22_StepNamed ==
  \A u \in Users :
    (u \in DOMAIN upload_sessions' /\ u \in DOMAIN upload_sessions
       /\ upload_sessions[u].files # <<>>
       /\ upload_sessions[u].files[1].file_name # <<>>) =>
      LET before == upload_sessions[u]
          after == upload_sessions'[u]
      IN  /\ (ev'.op = "document" /\ ev'.user = u) => after.movie_name = before.movie_name
          /\ after.movie_name # before.movie_name =>
               /\ ev'.op = "text" /\ ev'.user = u
               /\ before.awaiting_name_edit
               /\ ~after.awaiting_name_edit

C22_NamedSessionKeepsName == [][C22_StepNamed]_vars

(***************************************************************************)
(* C23: the list is permission-gated and caches what it shows: asked for   *)
(* by a non-admin (by /list or by a page button) it creates or changes no  *)
(* delete session and emits nothing; asked for by an admin it replaces     *)
(* that admin's delete session with exactly the page and the sequence the  *)
(* name-sorted skip/limit query returns, discarding any earlier selected   *)
(* record, and changes no other user's delete session.                     *)
(***************************************************************************)
C23_Step ==
  ev'.op \in {"list", "page"} =>
    LET u == ev'.user
        page == IF ev'.op = "list" THEN ev'.arg[1] ELSE ev'.arg[1].page
    IN  IF u \notin ADMIN_IDS
        THEN /\ delete_sessions' = delete_sessions
             /\ out' = <<>>
        ELSE /\ DOMAIN delete_sessions' = DOMAIN delete_sessions \cup {u}
             /\ \E sorted \in SortedByName(collection) :
                  delete_sessions'[u] =
                    [page |-> page,
                     movies |-> SkipLimit(sorted, (page - 1) * PAGE_SIZE, PAGE_SIZE),
                     selected |-> None]
             /\ \A v \in DOMAIN delete_sessions \ {u} :
                  delete_sessions'[v] = delete_sessions[v]

C23_ListGatedAndCached == [][C23_Step]_vars

\* Admin a1 lists again after selecting a record, while admin a2 holds a
\* delete session too.
C23_Witness ==
  /\ ev.op \in {"list", "page"}
  /\ ev.user = "a1"
  /\ "a2" \in DOMAIN delete_sessions
  /\ \E b \in buttons : b.data = "confirm_del" /\ b.user = "a1"
  /\ delete_sessions["a1"].selected = None

(***************************************************************************)
(* C24: Cancel leaves the storage unchanged and leaves every delete        *)
(* session (page, movies, selected) and every upload session unchanged;    *)
(* its only effect is that the confirmation prompt is discarded.           *)
(***************************************************************************)
C24_Step ==
  ev'.op = "cancel_del" =>
    /\ collection' = collection
    /\ delete_sessions' = delete_sessions
    /\ upload_sessions' = upload_sessions
    /\ next_id' = next_id
    /\ edit_offered' = edit_offered
    /\ buttons' = IF out'[1].ok THEN buttons \ {ev'.arg[1]} ELSE buttons
    /\ Len(out') = 1 /\ out'[1].kind = "prompt_deleted"

C24_CancelOnlyDiscardsPrompt == [][C24_Step]_vars

\* A prompt is cancelled while the selection is pending and an upload session
\* is open.
C24_Witness ==
  /\ ev.op = "cancel_del"
  /\ DidOk("prompt_deleted")
  /\ ev.arg[1] \notin buttons
  /\ ev.arg[1].user \in DOMAIN delete_sessions
  /\ delete_sessions[ev.arg[1].user].selected # None
  /\ upload_sessions # EmptyDict

(***************************************************************************)
(* C25: sessions are disjoint by user key: an event (document, photo,      *)
(* text, edit_name / continue_name press, list, number selection) of user  *)
(* u writes only u's upload session and u's delete session; the sessions   *)
(* of every other user are unchanged by the step, whatever message the     *)
(* pressed button was attached to.                                         *)
(***************************************************************************)
SessionsOf(v, uploads, deletes) ==
  << IF v \in DOMAIN uploads THEN Some(uploads[v]) ELSE None,
     IF v \in DOMAIN deletes THEN Some(deletes[v]) ELSE None >>

C25_Step ==
  steps' # steps =>
    \A v \in Members \ {ev'.user} :
      SessionsOf(v, upload_sessions', delete_sessions')
        = SessionsOf(v, upload_sessions, delete_sessions)

C25_OtherSessionsUnchanged == [][C25_Step]_vars

\* n1 presses the Edit Name button of the offer made to a1: n1's own session
\* is flagged and a1's is as it was.
C25_Witness ==
  /\ ev.op = "edit_name"
  /\ ev.user = "n1"
  /\ upload_sessions["n1"].awaiting_name_edit
  /\ "a1" \in DOMAIN upload_sessions
  /\ ~upload_sessions["a1"].awaiting_name_edit
  /\ upload_sessions["a1"].files # <<>>
  /\ {"a1", "a2"} \subseteq DOMAIN delete_sessions

(***************************************************************************)
(* C26: deletion is an admin-only workflow end to end: a record is removed *)
(* from the storage only in a step triggered by a user in ADMIN_IDS; a     *)
(* Confirm press by a non-admin (on a prompt an admin posted in a shared   *)
(* chat, for one) deletes nothing.                                         *)
(***************************************************************************)
C26_Step ==
  (\E j \in DOMAIN collection :
     \A h \in DOMAIN collection' : collection'[h]._id # collection[j]._id)
    => ev'.user \in ADMIN_IDS

C26_OnlyAdminsDelete == [][C26_Step]_vars

\* Selecting a number, which opens the prompt, is for admins only.
C26_OnlyAdminsSelect ==
  Did("confirm_prompt") => ev.user \in ADMIN_IDS

(***************************************************************************)
(* C27: whenever a Confirm press removes a record, that record is the one  *)
(* stored as selected in the delete session of the user who confirms;      *)
(* after an admin selects a number a second time, which opens a second     *)
(* prompt, confirming the earlier prompt cannot delete the earlier, no     *)
(* longer selected record.                                                 *)
(***************************************************************************)
\* The records the step removes from the collection.
Removed ==
  { collection[j] : j \in { j \in DOMAIN collection :
      \A h \in DOMAIN collection' : collection'[h]._id # collection[j]._id } }

C27_Step ==
  ev'.op = "confirm_del" =>
    \A r \in Removed :
      /\ ev'.user \in DOMAIN delete_sessions
      /\ delete_sessions[ev'.user].selected = Some(r)

C27_ConfirmDeletesSelected == [][C27_Step]_vars

\* The same for the presses an admin makes on the prompts of the admin's own
\* selections.
C27_OwnPromptStep ==
  (/\ ev'.op = "confirm_del"
   /\ ev'.arg[1].user = ev'.user
   /\ ev'.user \in DOMAIN delete_sessions
   /\ delete_sessions[ev'.user].selected # None) => C27_Step

C27_OwnConfirmDeletesSelected == [][C27_OwnPromptStep]_vars

====
